---- MODULE Spec2Model ----
(***************************************************************************)
(* Model of the complaint classification engine of CivicTrack              *)
(* (utils/ai_classifier.py, class ComplaintClassifier): the keyword         *)
(* fallback classifier, the prioritizer, the model store (load / train /   *)
(* persist) and the feedback loop.                                         *)
(*                                                                         *)
(* A string literal of the source is written as it is there; Chars gives   *)
(* its characters, so that lower(), concatenation and the substring test   *)
(* `kw in text` are computed on sequences of characters and not assumed.   *)
(* A text handled by the classifier (a title, a description, a corpus      *)
(* text) is a sequence of such literals, standing for the string that      *)
(* joins them with single spaces; <<>> is the empty string.                *)
(* A confidence is an integer number of thousandths (0.7 is 700).          *)
(*                                                                         *)
(* Three specifications: Spec runs whole calls one after the other on one  *)
(* instance (with restarts of the process), SpecFn applies the text        *)
(* functions to drawn arguments, and SpecConc interleaves the calls of     *)
(* two request threads statement by statement.  threads and modelRef are   *)
(* used by SpecConc only; the other two leave them at their initial value. *)
(* The web application around the classifier (routes, database seeding,    *)
(* the rate limiter) has its own specifications further down; they leave   *)
(* the classifier's variables alone, and the classifier's leave theirs.    *)
(***************************************************************************)
EXTENDS Integers, Sequences, FiniteSets, TLC

\* texts, labels: training_data['texts'] and training_data['labels']
\* model:         self.model
\* diskModel:     the file at model_path
\* diskMeta:      the file at <model>_meta.json
\* ret:           the last call: its operation, arguments and result (for
\*                learn also the corpus before it and the step that raised)
\* baseline:      what prioritize_complaint answered right after construction
\* threads:       the request-handling threads inside a call on the shared
\*                instance: the line each is at and its local variables
\* modelRef:      the identity of the object self.model refers to, and the
\*                identity the next Pipeline(...) gets
\* users, departments, complaints, feedbacks: the tables of the database
\*                (models/models.py); a row's id is its index
\* requests:      RateLimiter.requests, the times recorded for each IP
\* now:           the clock read by RateLimiter
VARIABLES texts, labels, model, diskModel, diskMeta, ret, baseline,
          threads, modelRef,
          users, departments, complaints, feedbacks, requests, now

\* the variables of the web application and of its helpers
webVars == <<users, departments, complaints, feedbacks, requests, now>>

\* the variables of the classifier's model store
storeVars == <<texts, labels, model, diskModel, diskMeta, baseline, modelRef>>

vars == <<texts, labels, model, diskModel, diskMeta, ret, baseline,
          threads, modelRef,
          users, departments, complaints, feedbacks, requests, now>>

(***************************************************************************)
(* Bounds of the model.                                                    *)
(***************************************************************************)
\* the longest description, in words, the text operations are applied to
MaxWords == 2
\* feedback examples appended to the corpus in one process lifetime
MaxLearn == 2

(***************************************************************************)
(* Strings.                                                                *)
(***************************************************************************)
UpperCase == <<"A","B","C","D","E","F","G","H","I","J","K","L","M",
               "N","O","P","Q","R","S","T","U","V","W","X","Y","Z">>
LowerCase == <<"a","b","c","d","e","f","g","h","i","j","k","l","m",
               "n","o","p","q","r","s","t","u","v","w","x","y","z">>

\* the characters of each string literal the model uses
Chars(s) ==
  CASE s = "FIRE" ->
         <<"F","I","R","E">>
    [] s = "Flooded" ->
         <<"F","l","o","o","d","e","d">>
    [] s = "Garbage" ->
         <<"G","a","r","b","a","g","e">>
    [] s = "accident" ->
         <<"a","c","c","i","d","e","n","t">>
    [] s = "block" ->
         <<"b","l","o","c","k">>
    [] s = "blocked" ->
         <<"b","l","o","c","k","e","d">>
    [] s = "broken" ->
         <<"b","r","o","k","e","n">>
    [] s = "broken lamp post needs replacement" ->
         <<"b","r","o","k","e","n"," ","l","a","m","p"," ","p","o","s","t"," ","n","e","e","d","s"," ","r","e","p","l","a","c","e","m","e","n","t">>
    [] s = "bump" ->
         <<"b","u","m","p">>
    [] s = "clean" ->
         <<"c","l","e","a","n">>
    [] s = "collapse" ->
         <<"c","o","l","l","a","p","s","e">>
    [] s = "congestion" ->
         <<"c","o","n","g","e","s","t","i","o","n">>
    [] s = "crack" ->
         <<"c","r","a","c","k">>
    [] s = "danger" ->
         <<"d","a","n","g","e","r">>
    [] s = "dark" ->
         <<"d","a","r","k">>
    [] s = "drain" ->
         <<"d","r","a","i","n">>
    [] s = "drainage blocked causing water logging" ->
         <<"d","r","a","i","n","a","g","e"," ","b","l","o","c","k","e","d"," ","c","a","u","s","i","n","g"," ","w","a","t","e","r"," ","l","o","g","g","i","n","g">>
    [] s = "dump" ->
         <<"d","u","m","p">>
    [] s = "electric" ->
         <<"e","l","e","c","t","r","i","c">>
    [] s = "electrical wire hanging dangerously" ->
         <<"e","l","e","c","t","r","i","c","a","l"," ","w","i","r","e"," ","h","a","n","g","i","n","g"," ","d","a","n","g","e","r","o","u","s","l","y">>
    [] s = "emergency" ->
         <<"e","m","e","r","g","e","n","c","y">>
    [] s = "fire" ->
         <<"f","i","r","e">>
    [] s = "flood" ->
         <<"f","l","o","o","d">>
    [] s = "garbage" ->
         <<"g","a","r","b","a","g","e">>
    [] s = "garbage accumulation near park smells bad" ->
         <<"g","a","r","b","a","g","e"," ","a","c","c","u","m","u","l","a","t","i","o","n"," ","n","e","a","r"," ","p","a","r","k"," ","s","m","e","l","l","s"," ","b","a","d">>
    [] s = "hazard" ->
         <<"h","a","z","a","r","d">>
    [] s = "illegal dumping in residential area" ->
         <<"i","l","l","e","g","a","l"," ","d","u","m","p","i","n","g"," ","i","n"," ","r","e","s","i","d","e","n","t","i","a","l"," ","a","r","e","a">>
    [] s = "illumination" ->
         <<"i","l","l","u","m","i","n","a","t","i","o","n">>
    [] s = "lamp post" ->
         <<"l","a","m","p"," ","p","o","s","t">>
    [] s = "large pothole on main street causing traffic" ->
         <<"l","a","r","g","e"," ","p","o","t","h","o","l","e"," ","o","n"," ","m","a","i","n"," ","s","t","r","e","e","t"," ","c","a","u","s","i","n","g"," ","t","r","a","f","f","i","c">>
    [] s = "leak" ->
         <<"l","e","a","k">>
    [] s = "light" ->
         <<"l","i","g","h","t">>
    [] s = "low water pressure in apartment building" ->
         <<"l","o","w"," ","w","a","t","e","r"," ","p","r","e","s","s","u","r","e"," ","i","n"," ","a","p","a","r","t","m","e","n","t"," ","b","u","i","l","d","i","n","g">>
    [] s = "noise pollution from construction site" ->
         <<"n","o","i","s","e"," ","p","o","l","l","u","t","i","o","n"," ","f","r","o","m"," ","c","o","n","s","t","r","u","c","t","i","o","n"," ","s","i","t","e">>
    [] s = "outage" ->
         <<"o","u","t","a","g","e">>
    [] s = "overflow" ->
         <<"o","v","e","r","f","l","o","w">>
    [] s = "park" ->
         <<"p","a","r","k">>
    [] s = "parking" ->
         <<"p","a","r","k","i","n","g">>
    [] s = "pipe" ->
         <<"p","i","p","e">>
    [] s = "pothole" ->
         <<"p","o","t","h","o","l","e">>
    [] s = "power" ->
         <<"p","o","w","e","r">>
    [] s = "power outage in downtown area since morning" ->
         <<"p","o","w","e","r"," ","o","u","t","a","g","e"," ","i","n"," ","d","o","w","n","t","o","w","n"," ","a","r","e","a"," ","s","i","n","c","e"," ","m","o","r","n","i","n","g">>
    [] s = "pressure" ->
         <<"p","r","e","s","s","u","r","e">>
    [] s = "public park maintenance required" ->
         <<"p","u","b","l","i","c"," ","p","a","r","k"," ","m","a","i","n","t","e","n","a","n","c","e"," ","r","e","q","u","i","r","e","d">>
    [] s = "quality" ->
         <<"q","u","a","l","i","t","y">>
    [] s = "road" ->
         <<"r","o","a","d">>
    [] s = "road damage" ->
         <<"r","o","a","d"," ","d","a","m","a","g","e">>
    [] s = "road repair" ->
         <<"r","o","a","d"," ","r","e","p","a","i","r">>
    [] s = "road repair needed after rain damage" ->
         <<"r","o","a","d"," ","r","e","p","a","i","r"," ","n","e","e","d","e","d"," ","a","f","t","e","r"," ","r","a","i","n"," ","d","a","m","a","g","e">>
    [] s = "road sign" ->
         <<"r","o","a","d"," ","s","i","g","n">>
    [] s = "road sign missing on highway" ->
         <<"r","o","a","d"," ","s","i","g","n"," ","m","i","s","s","i","n","g"," ","o","n"," ","h","i","g","h","w","a","y">>
    [] s = "safety" ->
         <<"s","a","f","e","t","y">>
    [] s = "sanitation" ->
         <<"s","a","n","i","t","a","t","i","o","n">>
    [] s = "sewage" ->
         <<"s","e","w","a","g","e">>
    [] s = "sewage overflow near hospital" ->
         <<"s","e","w","a","g","e"," ","o","v","e","r","f","l","o","w"," ","n","e","a","r"," ","h","o","s","p","i","t","a","l">>
    [] s = "shock" ->
         <<"s","h","o","c","k">>
    [] s = "sign" ->
         <<"s","i","g","n">>
    [] s = "signal" ->
         <<"s","i","g","n","a","l">>
    [] s = "street" ->
         <<"s","t","r","e","e","t">>
    [] s = "street light" ->
         <<"s","t","r","e","e","t"," ","l","i","g","h","t">>
    [] s = "street light not working on 5th avenue" ->
         <<"s","t","r","e","e","t"," ","l","i","g","h","t"," ","n","o","t"," ","w","o","r","k","i","n","g"," ","o","n"," ","5","t","h"," ","a","v","e","n","u","e">>
    [] s = "supply" ->
         <<"s","u","p","p","l","y">>
    [] s = "traffic" ->
         <<"t","r","a","f","f","i","c">>
    [] s = "traffic signal malfunction at intersection" ->
         <<"t","r","a","f","f","i","c"," ","s","i","g","n","a","l"," ","m","a","l","f","u","n","c","t","i","o","n"," ","a","t"," ","i","n","t","e","r","s","e","c","t","i","o","n">>
    [] s = "transformer" ->
         <<"t","r","a","n","s","f","o","r","m","e","r">>
    [] s = "trash" ->
         <<"t","r","a","s","h">>
    [] s = "urgent" ->
         <<"u","r","g","e","n","t">>
    [] s = "waste" ->
         <<"w","a","s","t","e">>
    [] s = "water" ->
         <<"w","a","t","e","r">>
    [] s = "water leak from main pipe near school" ->
         <<"w","a","t","e","r"," ","l","e","a","k"," ","f","r","o","m"," ","m","a","i","n"," ","p","i","p","e"," ","n","e","a","r"," ","s","c","h","o","o","l">>
    [] s = "water logging" ->
         <<"w","a","t","e","r"," ","l","o","g","g","i","n","g">>
    [] s = "wire" ->
         <<"w","i","r","e">>
    [] s = "xyzzy" ->
         <<"x","y","z","z","y">>

\* the string a text stands for: its pieces joined by single spaces
RECURSIVE Str(_)
Str(text) ==
  IF text = <<>> THEN <<>>
  ELSE IF Len(text) = 1 THEN Chars(text[1])
  ELSE Chars(text[1]) \o <<" ">> \o Str(Tail(text))

\* str.lower() on one character
LowerChar(c) ==
  IF \E i \in DOMAIN UpperCase : UpperCase[i] = c
  THEN LowerCase[CHOOSE i \in DOMAIN UpperCase : UpperCase[i] = c]
  ELSE c

\* str.lower()
Lower(s) == [i \in 1..Len(s) |-> LowerChar(s[i])]

\* the f-string f"{title} {description}"
Concat(title, description) == title \o <<" ">> \o description

\* the Python test `kw in text`
Contains(kw, text) ==
  \E i \in 0..(Len(text) - Len(kw)) : SubSeq(text, i + 1, i + Len(kw)) = kw

\* AnyKeywordFrom with the operands of `in` exchanged (`text in keyword`)
RECURSIVE AnyKeywordFromSwapped(_, _, _)
AnyKeywordFromSwapped(keywords, text, i) ==
  IF i > Len(keywords) THEN FALSE
  ELSE IF Contains(text, Chars(keywords[i])) THEN TRUE
  ELSE AnyKeywordFromSwapped(keywords, text, i + 1)

\* `for keyword in keywords: if keyword in text: <found>`, from index i on
RECURSIVE AnyKeywordFrom(_, _, _)
AnyKeywordFrom(keywords, text, i) ==
  IF i > Len(keywords) THEN FALSE
  ELSE IF Contains(Chars(keywords[i]), text) THEN TRUE
  ELSE AnyKeywordFrom(keywords, text, i + 1)

(***************************************************************************)
(* ComplaintClassifier.__init__: the category list and the seed corpus.    *)
(***************************************************************************)
categories ==
  <<"potholes", "garbage", "streetlight", "water",
    "electricity", "drainage", "traffic", "other">>

seed_texts ==
  << <<"large pothole on main street causing traffic">>,
    <<"garbage accumulation near park smells bad">>,
    <<"street light not working on 5th avenue">>,
    <<"water leak from main pipe near school">>,
    <<"power outage in downtown area since morning">>,
    <<"drainage blocked causing water logging">>,
    <<"traffic signal malfunction at intersection">>,
    <<"noise pollution from construction site">>,
    <<"road repair needed after rain damage">>,
    <<"illegal dumping in residential area">>,
    <<"broken lamp post needs replacement">>,
    <<"low water pressure in apartment building">>,
    <<"electrical wire hanging dangerously">>,
    <<"sewage overflow near hospital">>,
    <<"road sign missing on highway">>,
    <<"public park maintenance required">> >>

seed_labels ==
  <<"potholes", "garbage", "streetlight", "water",
    "electricity", "drainage", "traffic", "other",
    "potholes", "garbage", "streetlight", "water",
    "electricity", "drainage", "traffic", "other">>

(***************************************************************************)
(* fallback_classification: the rule-based classifier.                     *)
(***************************************************************************)
keyword_mapping ==
  << [category |-> "potholes",
      keywords |-> << "pothole",
                    "road damage",
                    "road repair",
                    "crack",
                    "bump" >>],
     [category |-> "garbage",
      keywords |-> << "garbage",
                    "trash",
                    "waste",
                    "dump",
                    "clean",
                    "sanitation" >>],
     [category |-> "streetlight",
      keywords |-> << "street light",
                    "lamp post",
                    "light",
                    "dark",
                    "illumination" >>],
     [category |-> "water",
      keywords |-> << "water",
                    "leak",
                    "pipe",
                    "pressure",
                    "supply",
                    "quality" >>],
     [category |-> "electricity",
      keywords |-> << "power",
                    "electric",
                    "outage",
                    "wire",
                    "shock",
                    "transformer" >>],
     [category |-> "drainage",
      keywords |-> << "drain",
                    "sewage",
                    "water logging",
                    "block",
                    "overflow" >>],
     [category |-> "traffic",
      keywords |-> << "traffic",
                    "signal",
                    "congestion",
                    "parking",
                    "road sign" >>] >>

\* the category loop of fallback_classification, from entry i of the mapping on
RECURSIVE ScanMappingFrom(_, _)
ScanMappingFrom(text, i) ==
  IF i > Len(keyword_mapping)
  THEN [category |-> "other", confidence |-> 500, method |-> "default"]
  ELSE IF AnyKeywordFrom(keyword_mapping[i].keywords, text, 1)
  THEN [category |-> keyword_mapping[i].category,
        confidence |-> 700, method |-> "keyword_match"]
  ELSE ScanMappingFrom(text, i + 1)

\* fallback_classification without the lower-casing of the text
fallback_classification_no_lower(title, description) ==
  ScanMappingFrom(Concat(Str(title), Str(description)), 1)

fallback_classification(title, description) ==
  ScanMappingFrom(Lower(Concat(Str(title), Str(description))), 1)

(***************************************************************************)
(* prioritize_complaint.                                                   *)
(***************************************************************************)
urgent_keywords ==
  << "emergency",
    "urgent",
    "danger",
    "accident",
    "fire",
    "flood",
    "collapse" >>

category_priority ==
  [c \in {"electricity", "water", "drainage"} |-> "High"] @@
  [c \in {"traffic", "potholes", "streetlight"} |-> "Medium"] @@
  [c \in {"garbage", "other"} |-> "Low"]

\* category_priority.get with the default of the lowest priority
category_priority_get_default_low(category) ==
  IF category \in DOMAIN category_priority
  THEN category_priority[category] ELSE "Low"

\* category_priority.get(category, 'Medium')
category_priority_get(category) ==
  IF category \in DOMAIN category_priority
  THEN category_priority[category] ELSE "Medium"

high_priority_words ==
  << "broken",
    "leak",
    "outage",
    "blocked",
    "hazard",
    "safety" >>

\* the escalation loop leaving after its first word (`break` out of the if)
EscalateFirstOnly(text, priority, i) ==
  IF Contains(Chars(high_priority_words[1]), text) /\ priority # "Critical"
  THEN "High"
  ELSE priority

\* the escalation loop of prioritize_complaint, from word i on
RECURSIVE EscalateFrom(_, _, _)
EscalateFrom(text, priority, i) ==
  IF i > Len(high_priority_words) THEN priority
  ELSE IF Contains(Chars(high_priority_words[i]), text)
          /\ priority # "Critical"
  THEN "High"
  ELSE EscalateFrom(text, priority, i + 1)

\* prioritize_complaint without the lower-casing of the description
prioritize_complaint_no_lower(category, description) ==
  LET text == Str(description) IN
  IF AnyKeywordFrom(urgent_keywords, text, 1) THEN "Critical"
  ELSE EscalateFrom(text, category_priority_get(category), 1)

\* prioritize_complaint consulting the model: no escalation without one
prioritize_complaint_by_model(category, description) ==
  LET text == Lower(Str(description)) IN
  IF AnyKeywordFrom(urgent_keywords, text, 1) THEN "Critical"
  ELSE IF model.kind = "None" THEN category_priority_get(category)
  ELSE EscalateFrom(text, category_priority_get(category), 1)

prioritize_complaint(category, description) ==
  LET text == Lower(Str(description)) IN
  IF AnyKeywordFrom(urgent_keywords, text, 1) THEN "Critical"
  ELSE EscalateFrom(text, category_priority_get(category), 1)

(***************************************************************************)
(* The model store.  A fitted sklearn Pipeline is known by the corpus it   *)
(* was fitted on; what it predicts for a text is the library's business    *)
(* and is an input of the predictor, constrained by the library's          *)
(* contract: predict() answers one of the fitted labels (classes_) and     *)
(* predict_proba().max() is at least 1/len(classes_) and at most 1.        *)
(***************************************************************************)
None == [kind |-> "None"]

\* Pipeline([...]) before fit
Unfitted == [kind |-> "Unfitted"]

\* Pipeline([...]).fit(texts, labels)
Fit(txts, lbls) == [kind |-> "Pipeline", texts |-> txts, labels |-> lbls]

\* the labels a fitted model can answer
classes_(m) == {m.labels[i] : i \in DOMAIN m.labels}

\* the file at model_path: missing, unreadable, or a dumped model
Absent == [kind |-> "absent"]
Corrupt == [kind |-> "corrupt"]
Pickle(m) == [kind |-> "pickle", obj |-> m]

\* a metadata document counting the seed corpus instead of the corpus
Metadata_seed_only(txts) ==
  [kind |-> "json", training_samples |-> Len(seed_texts), categories |-> categories]

\* the metadata document (trained_at and accuracy are telemetry, left out)
Metadata(txts) ==
  [kind |-> "json", training_samples |-> Len(txts), categories |-> categories]

\* the step of train_model that raises, if any
FailPoints == {"none", "fit", "makedirs", "dump", "evaluate", "meta"}

\* train_model whose except clause leaves self.model as it stands: the
\* fitted model stays when a step after fit raises
train_model_not_cleared(txts, lbls, dModel, dMeta, fail) ==
  CASE fail = "none" ->
         [model |-> Fit(txts, lbls), diskModel |-> Pickle(Fit(txts, lbls)),
          diskMeta |-> Metadata(txts)]
    [] fail = "fit" ->
         [model |-> None, diskModel |-> dModel, diskMeta |-> dMeta]
    [] fail = "makedirs" ->
         [model |-> Fit(txts, lbls), diskModel |-> dModel, diskMeta |-> dMeta]
    [] fail = "dump" ->
         [model |-> Fit(txts, lbls), diskModel |-> Corrupt, diskMeta |-> dMeta]
    [] fail = "evaluate" ->
         [model |-> Fit(txts, lbls), diskModel |-> Pickle(Fit(txts, lbls)),
          diskMeta |-> dMeta]
    [] fail = "meta" ->
         [model |-> Fit(txts, lbls), diskModel |-> Pickle(Fit(txts, lbls)),
          diskMeta |-> Corrupt]

\* train_model: the new self.model and the files it leaves behind
train_model(txts, lbls, dModel, dMeta, fail) ==
  CASE fail = "none" ->
         [model |-> Fit(txts, lbls), diskModel |-> Pickle(Fit(txts, lbls)),
          diskMeta |-> Metadata(txts)]
    [] fail \in {"fit", "makedirs"} ->
         [model |-> None, diskModel |-> dModel, diskMeta |-> dMeta]
    [] fail = "dump" ->
         [model |-> None, diskModel |-> Corrupt, diskMeta |-> dMeta]
    [] fail = "evaluate" ->
         [model |-> None, diskModel |-> Pickle(Fit(txts, lbls)),
          diskMeta |-> dMeta]
    [] fail = "meta" ->
         [model |-> None, diskModel |-> Pickle(Fit(txts, lbls)),
          diskMeta |-> Corrupt]

\* load_or_train_model ignoring the file at model_path
load_or_train_model_always_train(txts, lbls, dModel, dMeta, loadRaises, fail) ==
  train_model(txts, lbls, dModel, dMeta, fail)

\* load_or_train_model, self.model being None on entry
load_or_train_model(txts, lbls, dModel, dMeta, loadRaises, fail) ==
  IF dModel.kind # "absent"
  THEN IF dModel.kind = "pickle" /\ ~loadRaises
       THEN [model |-> dModel.obj, diskModel |-> dModel, diskMeta |-> dMeta]
       ELSE train_model(txts, lbls, dModel, dMeta, fail)
  ELSE train_model(txts, lbls, dModel, dMeta, fail)

(***************************************************************************)
(* The predictor.                                                          *)
(***************************************************************************)
\* an exception leaving a call (no operation of the class lets one out)
Raises == [category |-> "exception", confidence |-> 0, method |-> "exception"]

\* round(float(probability), 3), the probability in ten-thousandths
Round3(p) ==
  LET q == p \div 10
      r == p % 10
  IN IF r > 5 \/ (r = 5 /\ q % 2 = 1) THEN q + 1 ELSE q

\* classes_ in the library's order (np.unique sorts the labels)
SortedLabels ==
  <<"drainage", "electricity", "garbage", "other", "potholes",
    "streetlight", "traffic", "water", "zzz">>

\* the number of corpus examples of model m labelled c
CountOf(m, c) == Cardinality({i \in DOMAIN m.labels : m.labels[i] = c})

\* a text without any character but spaces has no token
IsBlank(text) == \A i \in DOMAIN text : text[i] = " "

\* the answer to a text without tokens: the feature vector is zero, the
\* class probabilities are the class priors, and argmax takes the first of
\* the most frequent labels; the probability is in ten-thousandths
PriorOutcome(m) ==
  LET best == CHOOSE i \in DOMAIN SortedLabels :
                /\ \A j \in DOMAIN SortedLabels :
                      CountOf(m, SortedLabels[j]) <= CountOf(m, SortedLabels[i])
                /\ \A j \in 1..(i - 1) :
                      CountOf(m, SortedLabels[j]) < CountOf(m, SortedLabels[i])
  IN [raises |-> FALSE, prediction |-> SortedLabels[best],
      probability |-> (CountOf(m, SortedLabels[best]) * 10000)
                        \div Len(m.labels)]

\* str.strip(): the tokenizer drops the spaces around a text
RECURSIVE Strip(_)
Strip(s) ==
  IF s = <<>> THEN s
  ELSE IF Head(s) = " " THEN Strip(Tail(s))
  ELSE IF s[Len(s)] = " " THEN Strip(SubSeq(s, 1, Len(s) - 1))
  ELSE s

\* a text of one token that is a training text of model m and occurs in
\* training texts labelled c only
Distinguishes(m, text, c) ==
  LET token == Strip(text) IN
  /\ token # <<>>
  /\ ~Contains(<<" ">>, token)
  /\ \E i \in DOMAIN m.texts : Str(m.texts[i]) = token /\ m.labels[i] = c
  /\ \A j \in DOMAIN m.texts :
        Contains(token, Str(m.texts[j])) => m.labels[j] = c

\* the labels predict() can answer to a text with a token: the label the
\* text distinguishes, if any (its only feature has count 1 + alpha in that
\* class and alpha = 0.1 in every other, which outweighs the priors of a
\* corpus of this size), otherwise any fitted label
Answers(m, text) ==
  IF \E c \in classes_(m) : Distinguishes(m, text, c)
  THEN {c \in classes_(m) : Distinguishes(m, text, c)}
  ELSE classes_(m)

\* what the library may do in one predict()/predict_proba() of model m on
\* the characters of a text
Outcomes(m, text) ==
  IF m.kind = "None"
  THEN {[raises |-> FALSE, prediction |-> "other", probability |-> 0]}
  ELSE IF m.kind = "Unfitted"
  THEN {[raises |-> TRUE, prediction |-> "other", probability |-> 0]}
  ELSE {[raises |-> TRUE, prediction |-> "other", probability |-> 0]} \cup
       IF IsBlank(text)
       THEN {PriorOutcome(m)}
       ELSE {[raises |-> FALSE, prediction |-> c, probability |-> p] :
               c \in Answers(m, text),
               p \in {x \in {1250, 9996} :
                        x * Cardinality(classes_(m)) >= 10000}}

\* predict_category with the model's invocation outside the try block
predict_category_no_try(m, title, description, out) ==
  IF m.kind = "None" THEN fallback_classification(title, description)
  ELSE IF out.raises THEN Raises
  ELSE [category |-> out.prediction,
        confidence |-> Round3(out.probability),
        method |-> "ai_model"]

predict_category(m, title, description, out) ==
  IF m.kind = "None" THEN fallback_classification(title, description)
  ELSE IF out.raises THEN fallback_classification(title, description)
  ELSE [category |-> out.prediction,
        confidence |-> Round3(out.probability),
        method |-> "ai_model"]

\* retrain_with_feedback's return value: train_model lets no exception out
retrain_with_feedback_returns(fail) == TRUE

(***************************************************************************)
(* Inputs.                                                                 *)
(***************************************************************************)
WordPool ==
  {"pothole", "Garbage", "light", "leak", "blocked",
   "FIRE", "Flooded", "sign", "broken", "park"}

\* the texts of at most n words of the pool
RECURSIVE TextsOf(_)
TextsOf(n) ==
  IF n = 0 THEN {<<>>}
  ELSE LET S == TextsOf(n - 1)
       IN S \cup {Append(s, w) : s \in S, w \in WordPool}

FnTitles == {<<>>, <<"road">>, <<"street">>, <<"Garbage">>}
FnDescriptions == TextsOf(MaxWords)
FnCategories == {categories[i] : i \in DOMAIN categories} \cup {"zzz"}

ClassifyTitles == {<<>>, <<"pothole">>, <<"xyzzy">>}
ClassifyDescriptions == {<<>>, <<"xyzzy">>}
LearnTexts == {<<"xyzzy">>}
LearnCategories == {"water", "zzz"}
PrioCategories == {"garbage", "water", "zzz"}
PrioDescriptions == {<<>>, <<"FIRE">>, <<"leak">>}

(***************************************************************************)
(* The classifier as a state machine: construction, classify, prioritize,  *)
(* learn and a restart of the process.                                     *)
(***************************************************************************)
\* whether load_or_train_model takes the model from the file
Loads(dModel, loadRaises) == dModel.kind = "pickle" /\ ~loadRaises

\* the record of a construction: the files it found, what the environment
\* did (loadRaises, fail) and whether the model was loaded or trained
ConstructRecord(dModel, dMeta, loadRaises, fail) ==
  [op |-> "construct", done |-> TRUE, fail |-> fail,
   loadRaises |-> loadRaises, loaded |-> Loads(dModel, loadRaises),
   diskModel_before |-> dModel, diskMeta_before |-> dMeta]

\* the threads of the web server that call the shared instance
Threads == {"t1", "t2"}

\* a thread outside any call; last is the call it returned from
Idle(last) == [pc |-> "idle", last |-> last]

\* no thread is inside a call
NoCalls == [t \in Threads |-> Idle("none")]

\* the model object of the construction is the first object
FirstRef == [ref |-> 1, next |-> 2]

\* the web application's tables and the rate limiter, not in use
NoWeb ==
  /\ users = <<>>
  /\ departments = <<>>
  /\ complaints = <<>>
  /\ feedbacks = <<>>
  /\ requests = <<>>
  /\ now = 0

\* the web application, the seeding script and the rate limiter never
\* import ai_classifier: no ComplaintClassifier exists in their process
NoClassifier ==
  /\ texts = <<>>
  /\ labels = <<>>
  /\ model = None
  /\ diskModel = Absent
  /\ diskMeta = Absent
  /\ baseline = <<>>
  /\ threads = NoCalls
  /\ modelRef = FirstRef

\* ComplaintClassifier(): the seed corpus, then load_or_train_model
Construct(loadRaises, fail) ==
  LET r == load_or_train_model(seed_texts, seed_labels,
                                diskModel, diskMeta, loadRaises, fail)
  IN /\ texts' = seed_texts
     /\ labels' = seed_labels
     /\ model' = r.model
     /\ diskModel' = r.diskModel
     /\ diskMeta' = r.diskMeta

Init ==
  /\ \E fail \in FailPoints :
       LET r == load_or_train_model(seed_texts, seed_labels,
                                     Absent, Absent, FALSE, fail)
       IN /\ texts = seed_texts
          /\ labels = seed_labels
          /\ model = r.model
          /\ diskModel = r.diskModel
          /\ diskMeta = r.diskMeta
          /\ ret = ConstructRecord(Absent, Absent, FALSE, fail)
  /\ threads = NoCalls
  /\ modelRef = FirstRef
  /\ baseline = [c \in PrioCategories, d \in PrioDescriptions |->
                   prioritize_complaint(c, d)]
  /\ NoWeb

Restart ==
  /\ \E loadRaises \in BOOLEAN, fail \in FailPoints :
       /\ Construct(loadRaises, fail)
       /\ ret' = ConstructRecord(diskModel, diskMeta, loadRaises, fail)
  /\ UNCHANGED <<baseline, threads, modelRef>>
  /\ UNCHANGED webVars

\* predict_category keeping the complaint as a training example
ClassifyKeepingExample ==
  /\ \E title \in ClassifyTitles, description \in ClassifyDescriptions :
     \E out \in Outcomes(model, Concat(Str(title), Str(description))) :
       LET result == predict_category(model, title, description, out)
       IN /\ ret' = [op |-> "classify", done |-> TRUE,
                     title |-> title, description |-> description,
                     raised |-> out.raises, result |-> result]
          /\ texts' = Append(texts, title)
          /\ labels' = Append(labels, result.category)
  /\ UNCHANGED <<model, diskModel, diskMeta, baseline, threads, modelRef>>
  /\ UNCHANGED webVars

Classify ==
  /\ \E title \in ClassifyTitles, description \in ClassifyDescriptions :
     \E out \in Outcomes(model, Concat(Str(title), Str(description))) :
       ret' = [op |-> "classify", done |-> TRUE,
               title |-> title, description |-> description,
               raised |-> out.raises,
               result |-> predict_category(model, title, description, out)]
  /\ UNCHANGED <<texts, labels, model, diskModel, diskMeta, baseline, threads, modelRef>>
  /\ UNCHANGED webVars

Prioritize ==
  /\ \E category \in PrioCategories, description \in PrioDescriptions :
       ret' = [op |-> "prioritize", done |-> TRUE,
               category |-> category, description |-> description,
               priority |-> prioritize_complaint(category, description)]
  /\ UNCHANGED <<texts, labels, model, diskModel, diskMeta, baseline, threads, modelRef>>
  /\ UNCHANGED webVars

Learn ==
  /\ Len(texts) < Len(seed_texts) + MaxLearn
  /\ \E text \in LearnTexts, actual_category \in LearnCategories,
        fail \in FailPoints :
       LET r == train_model(Append(texts, text),
                            Append(labels, actual_category),
                            diskModel, diskMeta, fail)
       IN /\ texts' = Append(texts, text)
          /\ labels' = Append(labels, actual_category)
          /\ model' = r.model
          /\ diskModel' = r.diskModel
          /\ diskMeta' = r.diskMeta
          /\ ret' = [op |-> "learn", done |-> TRUE,
                     text |-> text, category |-> actual_category,
                     fail |-> fail,
                     texts_before |-> texts, labels_before |-> labels,
                     model_before |-> model,
                     returned |-> retrain_with_feedback_returns(fail)]
  /\ UNCHANGED <<baseline, threads, modelRef>>
  /\ UNCHANGED webVars

Next == Restart \/ Classify \/ Prioritize \/ Learn

Spec == Init /\ [][Next]_vars

(***************************************************************************)
(* The text functions on their own: a call is drawn in the initial state   *)
(* and then run.                                                           *)
(***************************************************************************)
InitFn ==
  /\ \E fail \in {"none", "fit"} :
       LET r == load_or_train_model(seed_texts, seed_labels,
                                     Absent, Absent, FALSE, fail)
       IN /\ texts = seed_texts
          /\ labels = seed_labels
          /\ model = r.model
          /\ diskModel = r.diskModel
          /\ diskMeta = r.diskMeta
  /\ threads = NoCalls
  /\ modelRef = FirstRef
  /\ baseline = [c \in PrioCategories, d \in PrioDescriptions |->
                   prioritize_complaint(c, d)]
  /\ \/ \E title \in FnTitles, description \in FnDescriptions :
          ret = [op |-> "fallback", done |-> FALSE,
                 title |-> title, description |-> description]
     \/ \E category \in FnCategories, description \in FnDescriptions :
          ret = [op |-> "prioritize", done |-> FALSE,
                 category |-> category, description |-> description]
  /\ NoWeb

RunFallback ==
  /\ ret.op = "fallback" /\ ~ret.done
  /\ ret' = [ret EXCEPT !.done = TRUE] @@
            [result |-> fallback_classification(ret.title, ret.description)]
  /\ UNCHANGED <<texts, labels, model, diskModel, diskMeta, baseline, threads, modelRef>>
  /\ UNCHANGED webVars

RunPrioritize ==
  /\ ret.op = "prioritize" /\ ~ret.done
  /\ ret' = [ret EXCEPT !.done = TRUE] @@
            [priority |-> prioritize_complaint(ret.category, ret.description)]
  /\ UNCHANGED <<texts, labels, model, diskModel, diskMeta, baseline, threads, modelRef>>
  /\ UNCHANGED webVars

NextFn == RunFallback \/ RunPrioritize

SpecFn == InitFn /\ [][NextFn]_vars

(***************************************************************************)
(* The shared instance under concurrent requests.  The class takes no      *)
(* lock, so the calls of two threads interleave between any two accesses   *)
(* of self.model or training_data; each action below is one such access    *)
(* with the thread-local work around it.                                   *)
(***************************************************************************)
\* the steps of train_model made to raise under concurrent requests
ConcFailPoints == {"none", "fit", "dump"}
ConcTitles == {<<>>}
ConcDescriptions == {<<>>}

\* thread t moves to the record r
Goto(t, r) == threads' = [threads EXCEPT ![t] = r]

\* thread t moves to line pc, its local variables kept
Jump(t, pc) == Goto(t, [threads[t] EXCEPT !.pc = pc])

\* the threads that have entered retrain_with_feedback and not yet appended
\* their text
AboutToAppend == {u \in Threads : threads[u].pc = "append_text"}

\* a request calls retrain_with_feedback(text, actual_category)
LearnCall(t) ==
  /\ threads[t].pc = "idle"
  /\ Len(texts) + Cardinality(AboutToAppend) < Len(seed_texts) + MaxLearn
  /\ \E text \in LearnTexts, actual_category \in LearnCategories,
        fail \in ConcFailPoints :
       Goto(t, [pc |-> "append_text", op |-> "learn", text |-> text,
                category |-> actual_category, fail |-> fail])
  /\ UNCHANGED <<texts, labels, model, diskModel, diskMeta, ret, baseline,
                 modelRef>>
  /\ UNCHANGED webVars

\* self.training_data['texts'].append(text)
AppendText(t) ==
  /\ threads[t].pc = "append_text"
  /\ texts' = Append(texts, threads[t].text)
  /\ Jump(t, "append_label")
  /\ UNCHANGED <<labels, model, diskModel, diskMeta, ret, baseline, modelRef>>
  /\ UNCHANGED webVars

\* self.training_data['labels'].append(actual_category)
AppendLabel(t) ==
  /\ threads[t].pc = "append_label"
  /\ labels' = Append(labels, threads[t].category)
  /\ Jump(t, "new_pipeline")
  /\ UNCHANGED <<texts, model, diskModel, diskMeta, ret, baseline, modelRef>>
  /\ UNCHANGED webVars

\* train_model: self.model = Pipeline([...]), a new object, not fitted
NewPipeline(t) ==
  /\ threads[t].pc = "new_pipeline"
  /\ model' = Unfitted
  /\ modelRef' = [ref |-> modelRef.next, next |-> modelRef.next + 1]
  /\ Jump(t, "fit_texts")
  /\ UNCHANGED <<texts, labels, diskModel, diskMeta, ret, baseline>>
  /\ UNCHANGED webVars

\* self.model.fit(...): the object self.model refers to now is taken and
\* the vectorizer reads the texts; AttributeError if self.model is None
FitReadTexts(t) ==
  /\ threads[t].pc = "fit_texts"
  /\ IF model = None
     THEN Jump(t, "except")
     ELSE Goto(t, [threads[t] EXCEPT !.pc = "fit_labels"] @@
                  [obj |-> modelRef.ref, X |-> texts])
  /\ UNCHANGED <<texts, labels, model, diskModel, diskMeta, ret, baseline,
                 modelRef>>
  /\ UNCHANGED webVars

\* the classifier reads the labels and the object is fitted in place;
\* ValueError if the numbers of texts and labels differ
FitReadLabels(t) ==
  /\ threads[t].pc = "fit_labels"
  /\ IF threads[t].fail = "fit" \/ Len(threads[t].X) # Len(labels)
     THEN /\ Jump(t, "except")
          /\ UNCHANGED model
     ELSE /\ Jump(t, "dump")
          /\ model' = IF modelRef.ref = threads[t].obj
                      THEN Fit(threads[t].X, labels)
                      ELSE model
  /\ UNCHANGED <<texts, labels, diskModel, diskMeta, ret, baseline, modelRef>>
  /\ UNCHANGED webVars

\* os.makedirs and joblib.dump(self.model, self.model_path): whatever
\* self.model refers to now is written
DumpModel(t) ==
  /\ threads[t].pc = "dump"
  /\ IF threads[t].fail = "dump"
     THEN /\ diskModel' = Corrupt
          /\ Jump(t, "except")
     ELSE /\ diskModel' = Pickle(model)
          /\ Jump(t, "metadata")
  /\ UNCHANGED <<texts, labels, model, diskMeta, ret, baseline, modelRef>>
  /\ UNCHANGED webVars

\* the metadata with len(training_data['texts']) and evaluate_model(), then
\* the write of the file; predict raises on a model that is not fitted, and
\* the comparison of the predictions with labels of another length raises or
\* not with the numpy at hand
WriteMetadata(t) ==
  /\ threads[t].pc = "metadata"
  /\ \/ /\ model.kind = "Unfitted"
           \/ (model # None /\ Len(texts) # Len(labels))
        /\ Jump(t, "except")
        /\ UNCHANGED diskMeta
     \/ /\ model.kind # "Unfitted"
        /\ diskMeta' = Metadata(texts)
        /\ Jump(t, "return")
  /\ UNCHANGED <<texts, labels, model, diskModel, ret, baseline, modelRef>>
  /\ UNCHANGED webVars

\* except Exception: self.model = None
ExceptClear(t) ==
  /\ threads[t].pc = "except"
  /\ model' = None
  /\ modelRef' = [modelRef EXCEPT !.ref = 0]
  /\ Jump(t, "return")
  /\ UNCHANGED <<texts, labels, diskModel, diskMeta, ret, baseline>>
  /\ UNCHANGED webVars

\* retrain_with_feedback returns True
LearnReturn(t) ==
  /\ threads[t].pc = "return"
  /\ retrain_with_feedback_returns(threads[t].fail)
  /\ Goto(t, Idle("learn"))
  /\ UNCHANGED <<texts, labels, model, diskModel, diskMeta, ret, baseline,
                 modelRef>>
  /\ UNCHANGED webVars

\* a request calls predict_category(title, description)
ClassifyCall(t) ==
  /\ threads[t].pc = "idle"
  /\ \E title \in ConcTitles, description \in ConcDescriptions :
       Goto(t, [pc |-> "check_model", op |-> "classify", title |-> title,
                description |-> description, reads |-> <<>>])
  /\ UNCHANGED <<texts, labels, model, diskModel, diskMeta, ret, baseline,
                 modelRef>>
  /\ UNCHANGED webVars

\* if not self.model: return self.fallback_classification(...)
CheckModel(t) ==
  /\ threads[t].pc = "check_model"
  /\ LET seen == Append(threads[t].reads, model.kind) IN
     IF model = None
     THEN Goto(t, [threads[t] EXCEPT !.pc = "classified", !.reads = seen] @@
                  [result |-> fallback_classification(threads[t].title,
                                                      threads[t].description)])
     ELSE Goto(t, [threads[t] EXCEPT !.pc = "predict", !.reads = seen])
  /\ UNCHANGED <<texts, labels, model, diskModel, diskMeta, ret, baseline,
                 modelRef>>
  /\ UNCHANGED webVars

\* prediction = self.model.predict([text])[0], self.model read again
Predict(t) ==
  /\ threads[t].pc = "predict"
  /\ \E out \in Outcomes(model, Concat(Str(threads[t].title),
                                       Str(threads[t].description))) :
       LET seen == Append(threads[t].reads, model.kind)
           r == predict_category(model, threads[t].title,
                                 threads[t].description, out)
       IN IF r.method = "ai_model"
          THEN Goto(t, [threads[t] EXCEPT !.pc = "predict_proba",
                                          !.reads = seen] @@
                       [prediction |-> r.category])
          ELSE Goto(t, [threads[t] EXCEPT !.pc = "classified",
                                          !.reads = seen] @@
                       [result |-> r])
  /\ UNCHANGED <<texts, labels, model, diskModel, diskMeta, ret, baseline,
                 modelRef>>
  /\ UNCHANGED webVars

\* probability = self.model.predict_proba([text]).max(), self.model read
\* once more, and the result is built
PredictProba(t) ==
  /\ threads[t].pc = "predict_proba"
  /\ \E out \in Outcomes(model, Concat(Str(threads[t].title),
                                       Str(threads[t].description))) :
       LET seen == Append(threads[t].reads, model.kind)
           r == predict_category(model, threads[t].title,
                                 threads[t].description, out)
       IN Goto(t, [threads[t] EXCEPT !.pc = "classified", !.reads = seen] @@
                  [result |-> IF r.method = "ai_model"
                              THEN [r EXCEPT
                                      !.category = threads[t].prediction]
                              ELSE r])
  /\ UNCHANGED <<texts, labels, model, diskModel, diskMeta, ret, baseline,
                 modelRef>>
  /\ UNCHANGED webVars

\* predict_category returns
ClassifyReturn(t) ==
  /\ threads[t].pc = "classified"
  /\ Goto(t, Idle("classify"))
  /\ UNCHANGED <<texts, labels, model, diskModel, diskMeta, ret, baseline,
                 modelRef>>
  /\ UNCHANGED webVars

InitConc ==
  /\ \E fail \in {"none", "fit"} :
       LET r == load_or_train_model(seed_texts, seed_labels,
                                     Absent, Absent, FALSE, fail)
       IN /\ texts = seed_texts
          /\ labels = seed_labels
          /\ model = r.model
          /\ diskModel = r.diskModel
          /\ diskMeta = r.diskMeta
          /\ ret = ConstructRecord(Absent, Absent, FALSE, fail)
  /\ threads = NoCalls
  /\ modelRef = FirstRef
  /\ baseline = [c \in PrioCategories, d \in PrioDescriptions |->
                   prioritize_complaint(c, d)]
  /\ NoWeb

NextConc ==
  \E t \in Threads :
    \/ LearnCall(t)
    \/ AppendText(t)
    \/ AppendLabel(t)
    \/ NewPipeline(t)
    \/ FitReadTexts(t)
    \/ FitReadLabels(t)
    \/ DumpModel(t)
    \/ WriteMetadata(t)
    \/ ExceptClear(t)
    \/ LearnReturn(t)
    \/ ClassifyCall(t)
    \/ CheckModel(t)
    \/ Predict(t)
    \/ PredictProba(t)
    \/ ClassifyReturn(t)

SpecConc == InitConc /\ [][NextConc]_vars

(***************************************************************************)
(* RateLimiter (utils/helpers.py).  Times are whole seconds; a limiter is   *)
(* made with RateLimiter(max_requests, window) and its clock never runs    *)
(* backwards.  ret holds the last call and, in granted, the times of all   *)
(* the calls that were allowed so far, per IP.                             *)
(***************************************************************************)
\* the arguments the limiter is constructed with
max_requests == 2
window == 3
\* the last second of the clock
MaxTime == 4

IPs == {"10.0.0.1", "10.0.0.2"}

\* self.requests with the list of ip_address replaced
SetRequests(reqs, ip_address, times) ==
  [i \in DOMAIN reqs \cup {ip_address} |->
     IF i = ip_address THEN times ELSE reqs[i]]

\* the list comprehension keeping the times inside the window
Recent(times, t) == SelectSeq(times, LAMBDA req_time : t - req_time < window)

\* is_allowed admitting a request while the list holds max_requests times
is_allowed_off_by_one(reqs, ip_address, t) ==
  LET known == IF ip_address \in DOMAIN reqs THEN reqs[ip_address] ELSE <<>>
      kept == Recent(known, t)
  IN IF Len(kept) <= max_requests
     THEN [requests |-> SetRequests(reqs, ip_address, Append(kept, t)),
           allowed |-> TRUE]
     ELSE [requests |-> SetRequests(reqs, ip_address, kept),
           allowed |-> FALSE]

\* is_allowed at time t: the new self.requests and the value returned
is_allowed(reqs, ip_address, t) ==
  LET known == IF ip_address \in DOMAIN reqs THEN reqs[ip_address] ELSE <<>>
      kept == Recent(known, t)
  IN IF Len(kept) < max_requests
     THEN [requests |-> SetRequests(reqs, ip_address, Append(kept, t)),
           allowed |-> TRUE]
     ELSE [requests |-> SetRequests(reqs, ip_address, kept),
           allowed |-> FALSE]

\* get_remaining at time t: the requests it counts inside the window
get_remaining(reqs, ip_address, t) ==
  IF ip_address \notin DOMAIN reqs THEN max_requests
  ELSE Len(Recent(reqs[ip_address], t))

\* no call yet: nothing granted
NoneGranted == [ip \in IPs |-> <<>>]

InitRate ==
  /\ NoClassifier
  /\ users = <<>>
  /\ departments = <<>>
  /\ complaints = <<>>
  /\ feedbacks = <<>>
  /\ requests = <<>>
  /\ now \in 0..1
  /\ ret = [op |-> "RateLimiter", granted |-> NoneGranted]

\* limiter.is_allowed(ip_address), the clock having reached t
IsAllowed ==
  /\ \E ip_address \in IPs, t \in now..MaxTime :
       LET r == is_allowed(requests, ip_address, t)
       IN /\ now' = t
          /\ requests' = r.requests
          /\ ret' = [op |-> "is_allowed", ip |-> ip_address, time |-> t,
                     allowed |-> r.allowed, before |-> requests,
                     granted |-> IF r.allowed
                                 THEN [ret.granted EXCEPT ![ip_address] =
                                         Append(@, t)]
                                 ELSE ret.granted]
  /\ UNCHANGED <<storeVars, threads, users, departments, complaints,
                 feedbacks>>

\* limiter.get_remaining(ip_address), the clock having reached t
GetRemaining ==
  /\ \E ip_address \in IPs, t \in now..MaxTime :
       /\ now' = t
       /\ ret' = [op |-> "get_remaining", ip |-> ip_address, time |-> t,
                  counted |-> get_remaining(requests, ip_address, t),
                  before |-> requests, granted |-> ret.granted]
  /\ UNCHANGED <<storeVars, threads, users, departments, complaints,
                 feedbacks, requests>>

NextRate == IsAllowed \/ GetRemaining

SpecRate == InitRate /\ [][NextRate]_vars

(***************************************************************************)
(* The database seeding script (database/init_db.py) and registration      *)
(* (routes/auth.py).  A table is the sequence of its rows, a row's id its  *)
(* index.  ret holds the last call; admin_username and citizen_username    *)
(* are the environment the script was started in.                          *)
(***************************************************************************)
\* User(username, email, is_admin, is_government) with its password set
User(username, email, is_admin, is_government, password) ==
  [username |-> username, email |-> email, is_admin |-> is_admin,
   is_government |-> is_government, password_hash |-> <<"hash", password>>]

\* Department(name, email)
Department(name, email) == [name |-> name, email |-> email]

default_depts ==
  << Department("Roads and Infrastructure", "roads@city.gov"),
     Department("Sanitation and Waste", "sanitation@city.gov"),
     Department("Electricity Department", "electricity@city.gov"),
     Department("Water Supply", "water@city.gov"),
     Department("Street Lighting", "lighting@city.gov"),
     Department("Emergency Services", "emergency@city.gov") >>

\* User.query.filter_by(username=...).first() finds a row
HasUsername(us, username) == \E i \in DOMAIN us : us[i].username = username

\* the unique constraints of users let row u in
UserFits(us, u) ==
  \A i \in DOMAIN us : us[i].username # u.username /\ us[i].email # u.email

\* the unique constraints of departments let the rows ds2 in after ds
DepartmentsFit(ds, ds2) ==
  LET all == ds \o ds2
  IN \A i, j \in DOMAIN all :
       i # j => (all[i].name # all[j].name /\ all[i].email # all[j].email)

\* the script failed: the session is rolled back and the exception re-raised
RolledBack(us, ds) == [users |-> us, departments |-> ds, raised |-> TRUE]

\* the departments step of init_database and the commit, the users being us2
SeedDepartments(us, ds, us2, seed) ==
  IF seed
  THEN IF DepartmentsFit(ds, default_depts)
       THEN [users |-> us2, departments |-> ds \o default_depts,
             raised |-> FALSE]
       ELSE RolledBack(us, ds)
  ELSE [users |-> us2, departments |-> ds, raised |-> FALSE]

\* the citizen step of init_database and what follows; the pending admin
\* row is flushed by the query, so us1 already holds it
SeedCitizen(us, ds, us1, citizen_username, seed) ==
  LET citizen == User(citizen_username, "citizen@example.com", FALSE, FALSE,
                      "citizen123")
  IN IF HasUsername(us1, citizen_username)
     THEN SeedDepartments(us, ds, us1, seed)
     ELSE IF UserFits(us1, citizen)
     THEN SeedDepartments(us, ds, Append(us1, citizen), seed)
     ELSE RolledBack(us, ds)

\* init_database seeding the departments whether or not the table has rows
init_database_always_seed(us, ds, admin_username, citizen_username) ==
  LET admin == User(admin_username, "admin@smartcity.gov", TRUE, TRUE,
                    "admin123")
  IN IF HasUsername(us, admin_username)
     THEN SeedCitizen(us, ds, us, citizen_username, TRUE)
     ELSE IF UserFits(us, admin)
     THEN SeedCitizen(us, ds, Append(us, admin), citizen_username, TRUE)
     ELSE RolledBack(us, ds)

\* init_database on the tables us and ds: the tables it leaves and whether
\* it raised
init_database(us, ds, admin_username, citizen_username) ==
  LET admin == User(admin_username, "admin@smartcity.gov", TRUE, TRUE,
                    "admin123")
  IN IF HasUsername(us, admin_username)
     THEN SeedCitizen(us, ds, us, citizen_username, ds = <<>>)
     ELSE IF UserFits(us, admin)
     THEN SeedCitizen(us, ds, Append(us, admin), citizen_username, ds = <<>>)
     ELSE RolledBack(us, ds)

\* the rows a database may hold before the script first runs
EarlierUsers ==
  << User("citizen", "someone@example.com", FALSE, FALSE, "secret"),
     User("bob", "admin@smartcity.gov", FALSE, FALSE, "secret"),
     User("alice", "alice@example.com", FALSE, TRUE, "secret") >>
EarlierDepartments ==
  {<<>>, <<Department("Parks", "parks@city.gov")>>,
   <<Department("Water Supply", "supply@city.gov")>>}

\* the values of SMARTCITY_ADMIN_USER and SMARTCITY_CITIZEN_USER
AdminUsernames == {"admin", "root"}
CitizenUsernames == {"citizen", "admin"}

\* the people who register through the site
Registrants ==
  {User("carol", "carol@example.com", FALSE, FALSE, "secret"),
   User("citizen", "carol@example.com", FALSE, TRUE, "secret")}

\* the subsequences of a sequence of rows
RECURSIVE SubSeqs(_)
SubSeqs(rows) ==
  IF rows = <<>> THEN {<<>>}
  ELSE LET rest == SubSeqs(Tail(rows))
       IN rest \cup {<<Head(rows)>> \o r : r \in rest}

InitDb ==
  /\ NoClassifier
  /\ users \in SubSeqs(EarlierUsers)
  /\ departments \in EarlierDepartments
  /\ complaints = <<>>
  /\ feedbacks = <<>>
  /\ requests = <<>>
  /\ now = 0
  /\ \E a \in AdminUsernames, c \in CitizenUsernames :
       ret = [op |-> "create_app", admin_username |-> a,
              citizen_username |-> c, raised |-> FALSE]

\* python database/init_db.py
InitDatabase ==
  /\ LET r == init_database(users, departments,
                            ret.admin_username, ret.citizen_username)
     IN /\ users' = r.users
        /\ departments' = r.departments
        /\ ret' = [op |-> "init_database",
                   admin_username |-> ret.admin_username,
                   citizen_username |-> ret.citizen_username,
                   raised |-> r.raised,
                   users_before |-> users,
                   departments_before |-> departments]
  /\ UNCHANGED <<storeVars, threads, complaints, feedbacks, requests, now>>

\* POST /register with a form that validates: RegistrationForm refuses a
\* username or an email that is taken
Register ==
  /\ \E u \in Registrants :
       /\ UserFits(users, u)
       /\ users' = Append(users, u)
       /\ ret' = [op |-> "register",
                  admin_username |-> ret.admin_username,
                  citizen_username |-> ret.citizen_username,
                  raised |-> FALSE]
  /\ UNCHANGED <<storeVars, threads, departments, complaints, feedbacks,
                 requests, now>>

NextDb == InitDatabase \/ Register

SpecDb == InitDb /\ [][NextDb]_vars

(***************************************************************************)
(* The complaint routes (routes/complaints.py) and the admin routes        *)
(* (routes/admin.py) over the tables users, departments, complaints and    *)
(* feedbacks.  A nullable column holds Null or Val(x).  A request is made  *)
(* by current_user, a row id of users or Anonymous.  ret holds the last    *)
(* response: the route, the user, the outcome and the complaint ids the    *)
(* response carries.  threads holds the submit_feedback requests that      *)
(* have read their complaint and not yet committed.                        *)
(***************************************************************************)
MaxComplaints == 1

Null == <<>>
Val(x) == <<x>>

\* flask_login's AnonymousUserMixin
Anonymous == 0

\* the users of the running site: the seeded admin and citizen, a
\* registered government official and a second registered citizen
SiteUsers ==
  << User("admin", "admin@smartcity.gov", TRUE, TRUE, "admin123"),
     User("citizen", "citizen@example.com", FALSE, FALSE, "citizen123"),
     User("officer", "officer@city.gov", FALSE, TRUE, "secret"),
     User("carol", "carol@example.com", FALSE, FALSE, "secret") >>

CurrentUsers == {Anonymous} \cup DOMAIN SiteUsers

\* current_user.is_authenticated
is_authenticated(current_user) == current_user # Anonymous

\* current_user.is_admin or current_user.is_government
IsStaff(current_user) ==
  users[current_user].is_admin \/ users[current_user].is_government

\* restrict_to_admin letting every logged-in user through
restrict_to_admin_login_only(current_user) ==
  ~is_authenticated(current_user)

\* restrict_to_admin redirects the request
restrict_to_admin(current_user) ==
  ~is_authenticated(current_user) \/ ~IsStaff(current_user)

\* category_dept_map.get(category, 'Emergency Services')
category_dept_map(category) ==
  CASE category \in {"potholes", "traffic"} -> "Roads and Infrastructure"
    [] category \in {"garbage", "drainage"} -> "Sanitation and Waste"
    [] category = "streetlight" -> "Street Lighting"
    [] category = "water" -> "Water Supply"
    [] category = "electricity" -> "Electricity Department"
    [] OTHER -> "Emergency Services"

\* Department.query.filter_by(name=dept_name).first(), as department_id
DepartmentId(dept_name) ==
  LET found == {i \in DOMAIN departments : departments[i].name = dept_name}
  IN IF found = {} THEN Null
     ELSE Val(CHOOSE i \in found : \A j \in found : i <= j)

\* Complaint(...) as new_complaint builds it, with the column defaults
Complaint(user_id, category, department_id) ==
  [user_id |-> user_id, category |-> category,
   department_id |-> department_id, status |-> "Pending",
   priority |-> "Medium", assigned_to |-> Null, resolved_at |-> Null]

\* Feedback(complaint_id, rating, submitted_by)
Feedback(complaint_id, rating, submitted_by) ==
  [complaint_id |-> complaint_id, rating |-> rating,
   submitted_by |-> submitted_by]

\* complaint.feedback
HasFeedback(fs, id) == \E i \in DOMAIN fs : fs[i].complaint_id = id

\* a response
Response(op, current_user, outcome, given) ==
  [op |-> op, user |-> current_user, outcome |-> outcome, given |-> given]

\* update_status of manage_complaint leaving resolved_at alone
update_status_no_resolved_at(complaint, current_user, new_status) ==
  IF new_status = "In Progress" /\ complaint.assigned_to = Null
  THEN [complaint EXCEPT !.status = new_status,
                         !.assigned_to = Val(current_user)]
  ELSE [complaint EXCEPT !.status = new_status]

\* update_status of manage_complaint assigning on every move to In Progress
update_status_always_assign(complaint, current_user, new_status) ==
  IF new_status = "Resolved"
  THEN [complaint EXCEPT !.status = new_status, !.resolved_at = Val(now)]
  ELSE IF new_status = "In Progress"
  THEN [complaint EXCEPT !.status = new_status,
                         !.assigned_to = Val(current_user)]
  ELSE [complaint EXCEPT !.status = new_status]

\* action == 'update_status'
update_status(complaint, current_user, new_status) ==
  IF new_status = "Resolved"
  THEN [complaint EXCEPT !.status = new_status, !.resolved_at = Val(now)]
  ELSE IF new_status = "In Progress" /\ complaint.assigned_to = Null
  THEN [complaint EXCEPT !.status = new_status,
                         !.assigned_to = Val(current_user)]
  ELSE [complaint EXCEPT !.status = new_status]

\* action == 'update_priority'
update_priority(complaint, new_priority) ==
  [complaint EXCEPT !.priority = new_priority]

\* action == 'reassign'; an empty department_id field is Null
reassign(complaint, new_dept_id) ==
  IF new_dept_id # Null
  THEN [complaint EXCEPT !.department_id = new_dept_id]
  ELSE complaint

\* the forms posted to manage_complaint, and a GET
StatusForms ==
  {[action |-> "update_status", value |-> s] :
     s \in {"In Progress", "Resolved", "Rejected"}}
PriorityForms ==
  {[action |-> "update_priority", value |-> p] : p \in {"Urgent"}}
ReassignForms ==
  {[action |-> "reassign", value |-> d] : d \in {Null, Val(4)}}
NoForm == [action |-> "GET", value |-> Null]
ManageForms == StatusForms \cup PriorityForms \cup ReassignForms \cup {NoForm}

\* the body of manage_complaint on the complaint row
manage_complaint(complaint, current_user, form) ==
  CASE form.action = "update_status" ->
         update_status(complaint, current_user, form.value)
    [] form.action = "update_priority" ->
         update_priority(complaint, form.value)
    [] form.action = "reassign" -> reassign(complaint, form.value)
    [] OTHER -> complaint

\* the ids a request may name; an id not yet given out is a 404
ComplaintIds == 1..MaxComplaints

\* the categories of the complaint form that the model submits
Categories == {"potholes"}

\* the citizens who report complaints
Reporters == {i \in DOMAIN SiteUsers : ~SiteUsers[i].is_admin
                                       /\ ~SiteUsers[i].is_government}

InitWeb ==
  /\ NoClassifier
  /\ users = SiteUsers
  /\ departments = default_depts
  /\ complaints = <<>>
  /\ feedbacks = <<>>
  /\ requests = <<>>
  /\ now = 0
  /\ ret = Response("create_app", Anonymous, "ok", {})

\* POST /complaint/new with a form that validates
NewComplaint ==
  /\ Len(complaints) < MaxComplaints
  /\ \E current_user \in Reporters \cup {Anonymous}, category \in Categories :
       IF ~is_authenticated(current_user)
       THEN /\ ret' = Response("new_complaint", current_user, "login", {})
            /\ UNCHANGED complaints
       ELSE /\ complaints' =
                 Append(complaints,
                        Complaint(current_user, category,
                                  DepartmentId(category_dept_map(category))))
            /\ ret' = Response("new_complaint", current_user, "redirect", {})
  /\ UNCHANGED <<storeVars, threads, users, departments, feedbacks,
                 requests, now>>

\* GET or POST /admin/complaint/<id>
ManageComplaint ==
  /\ \E current_user \in CurrentUsers :
       IF restrict_to_admin(current_user)
       THEN /\ ret' = Response("manage_complaint", current_user,
                               "redirect", {})
            /\ UNCHANGED complaints
       ELSE \E id \in ComplaintIds, form \in ManageForms :
              IF id \notin DOMAIN complaints
              THEN /\ ret' = Response("manage_complaint", current_user,
                                      "404", {})
                   /\ UNCHANGED complaints
              ELSE /\ complaints' =
                        [complaints EXCEPT
                           ![id] = manage_complaint(complaints[id],
                                                    current_user, form)]
                   /\ ret' = Response("manage_complaint", current_user,
                                      "ok", {id})
  /\ UNCHANGED <<storeVars, threads, users, departments, feedbacks,
                 requests, now>>

\* GET /admin
AdminDashboard ==
  /\ \E current_user \in CurrentUsers :
       IF restrict_to_admin(current_user)
       THEN ret' = Response("admin_dashboard", current_user, "redirect", {})
       ELSE ret' = Response("admin_dashboard", current_user, "ok",
                            DOMAIN complaints)
  /\ UNCHANGED <<storeVars, threads, webVars>>

\* GET /dashboard
Dashboard ==
  /\ \E current_user \in CurrentUsers :
       IF ~is_authenticated(current_user)
       THEN ret' = Response("dashboard", current_user, "login", {})
       ELSE ret' = Response("dashboard", current_user, "ok",
                            {i \in DOMAIN complaints :
                               complaints[i].user_id = current_user})
  /\ UNCHANGED <<storeVars, threads, webVars>>

\* view_complaint showing the complaint to whoever is logged in
view_complaint_unchecked(current_user, id) ==
  IF id \notin DOMAIN complaints
  THEN Response("view_complaint", current_user, "404", {})
  ELSE Response("view_complaint", current_user, "ok", {id})

\* view_complaint for a logged-in user
view_complaint(current_user, id) ==
  IF id \notin DOMAIN complaints
  THEN Response("view_complaint", current_user, "404", {})
  ELSE IF complaints[id].user_id # current_user /\ ~IsStaff(current_user)
  THEN Response("view_complaint", current_user, "redirect", {})
  ELSE Response("view_complaint", current_user, "ok", {id})

\* GET /complaint/<id>
ViewComplaint ==
  /\ \E current_user \in CurrentUsers :
       IF ~is_authenticated(current_user)
       THEN ret' = Response("view_complaint", current_user, "login", {})
       ELSE \E id \in ComplaintIds : ret' = view_complaint(current_user, id)
  /\ UNCHANGED <<storeVars, threads, webVars>>

\* GET /api/complaints
GetComplaintsApi ==
  /\ \E current_user \in CurrentUsers :
       IF ~is_authenticated(current_user)
       THEN ret' = Response("get_complaints_api", current_user, "login", {})
       ELSE IF IsStaff(current_user)
       THEN ret' = Response("get_complaints_api", current_user, "ok",
                            DOMAIN complaints)
       ELSE ret' = Response("get_complaints_api", current_user, "ok",
                            {i \in DOMAIN complaints :
                               complaints[i].user_id = current_user})
  /\ UNCHANGED <<storeVars, threads, webVars>>

\* the checks of submit_feedback on the complaint it loaded: the response
\* of a refused request, or "form" when the form is looked at
submit_feedback_checks(current_user, id) ==
  IF id \notin DOMAIN complaints THEN "404"
  ELSE IF complaints[id].user_id # current_user THEN "redirect"
  ELSE IF complaints[id].status # "Resolved" THEN "redirect"
  ELSE IF HasFeedback(feedbacks, id) THEN "redirect"
  ELSE "form"

\* a submit_feedback request between validate_on_submit and the commit
Committing(current_user, id) ==
  [pc |-> "commit", user |-> current_user, id |-> id]

\* the ratings of the feedback form that the model submits
Ratings == {"5"}

\* int(form.rating.data)
RatingValue(rating) ==
  CASE rating = "1" -> 1 [] rating = "2" -> 2 [] rating = "3" -> 3
    [] rating = "4" -> 4 [] rating = "5" -> 5

\* POST /complaint/<id>/feedback up to validate_on_submit; valid is whether
\* the form validates
SubmitFeedbackCall(t) ==
  /\ threads[t].pc = "idle"
  /\ \E current_user \in CurrentUsers, id \in ComplaintIds, valid \in BOOLEAN :
       IF ~is_authenticated(current_user)
       THEN /\ ret' = Response("submit_feedback", current_user, "login", {})
            /\ UNCHANGED threads
       ELSE LET checked == submit_feedback_checks(current_user, id)
            IN IF checked # "form"
               THEN /\ ret' = Response("submit_feedback", current_user,
                                       checked, {})
                    /\ UNCHANGED threads
               ELSE IF ~valid
               THEN /\ ret' = Response("submit_feedback", current_user,
                                       "redirect", {})
                    /\ UNCHANGED threads
               ELSE /\ threads' =
                         [threads EXCEPT ![t] = Committing(current_user, id)]
                    /\ UNCHANGED ret
  /\ UNCHANGED <<storeVars, webVars>>

\* db.session.add(feedback); db.session.commit(): the unique constraint on
\* feedbacks.complaint_id refuses a second row for the complaint
SubmitFeedbackCommit(t) ==
  /\ threads[t].pc = "commit"
  /\ \E rating \in Ratings :
       IF HasFeedback(feedbacks, threads[t].id)
       THEN /\ ret' = Response("submit_feedback", threads[t].user, "500", {})
            /\ UNCHANGED feedbacks
       ELSE /\ feedbacks' =
                 Append(feedbacks,
                        Feedback(threads[t].id, RatingValue(rating),
                                 threads[t].user))
            /\ ret' = Response("submit_feedback", threads[t].user,
                               "redirect", {})
  /\ threads' = [threads EXCEPT ![t] = Idle("none")]
  /\ UNCHANGED <<storeVars, users, departments, complaints, requests, now>>

\* the administration: complaints are filed and managed
NextAdmin == NewComplaint \/ ManageComplaint \/ AdminDashboard

SpecAdmin == InitWeb /\ [][NextAdmin]_vars

\* the citizens' pages: complaints are filed, managed and looked at
NextView ==
  \/ NewComplaint
  \/ ManageComplaint
  \/ Dashboard
  \/ ViewComplaint
  \/ GetComplaintsApi

SpecView == InitWeb /\ [][NextView]_vars

\* feedback: complaints are filed and managed while feedback requests are
\* served by two threads
NextFeedback ==
  \/ NewComplaint
  \/ ManageComplaint
  \/ \E t \in Threads : SubmitFeedbackCall(t)
  \/ \E t \in Threads : SubmitFeedbackCommit(t)

SpecFeedback == InitWeb /\ [][NextFeedback]_vars

(***************************************************************************)
(* Reference definitions used by the properties below.                     *)
(***************************************************************************)
FixedCategories ==
  {"potholes", "garbage", "streetlight", "water",
   "electricity", "drainage", "traffic", "other"}

\* the order in which the fallback classifier is specified to test categories
FixedOrder ==
  <<"potholes", "garbage", "streetlight", "water",
    "electricity", "drainage", "traffic">>

\* the keywords of category c, as a set
KeywordsOf(c) ==
  UNION {{keyword_mapping[i].keywords[j] :
            j \in DOMAIN keyword_mapping[i].keywords} :
         i \in {k \in DOMAIN keyword_mapping : keyword_mapping[k].category = c}}

\* the specified answer of the keyword classifier, methodName being what it
\* calls a keyword hit
KeywordReference(title, description, methodName) ==
  LET text == Lower(Str(title) \o <<" ">> \o Str(description))
      hits == {i \in DOMAIN FixedOrder :
                 \E kw \in KeywordsOf(FixedOrder[i]) :
                    Contains(Chars(kw), text)}
  IN IF hits = {}
     THEN [category |-> "other", confidence |-> 500, method |-> "default"]
     ELSE [category |-> FixedOrder[CHOOSE i \in hits : \A j \in hits : i <= j],
           confidence |-> 700, method |-> methodName]

DefaultResult == [category |-> "other", confidence |-> 500, method |-> "default"]

UrgentWords ==
  { "emergency",
    "urgent",
    "danger",
    "accident",
    "fire",
    "flood",
    "collapse" }

EscalationWords ==
  { "broken",
    "leak",
    "outage",
    "blocked",
    "hazard",
    "safety" }

HasUrgent(description) ==
  \E kw \in UrgentWords : Contains(Chars(kw), Lower(Str(description)))

HasEscalation(description) ==
  \E kw \in EscalationWords : Contains(Chars(kw), Lower(Str(description)))

\* the specified base priority of a category
BasePriority(category) ==
  CASE category \in {"electricity", "water", "drainage"} -> "High"
    [] category \in {"traffic", "potholes", "streetlight"} -> "Medium"
    [] category \in {"garbage", "other"} -> "Low"
    [] OTHER -> "Medium"

\* Critical > High > Medium > Low
Severity(priority) ==
  CASE priority = "Critical" -> 3
    [] priority = "High" -> 2
    [] priority = "Medium" -> 1
    [] priority = "Low" -> 0

ClassifyDone == ret.op = "classify" /\ ret.done
FallbackDone == ret.op = "fallback" /\ ret.done
PrioritizeDone == ret.op = "prioritize" /\ ret.done
LearnDone == ret.op = "learn" /\ ret.done

(***************************************************************************)
(* The properties.                                                         *)
(***************************************************************************)

\* C1: after any sequence of construct, learn and classify calls, classify
\* returns one of the 8 fixed categories and a confidence in [0, 1].
\* The code does not keep it: learn accepts any label and the retrained
\* model answers it.
C1_ClassifyInFixedCategories ==
  ClassifyDone =>
    /\ ret.result.category \in FixedCategories
    /\ ret.result.confidence >= 0
    /\ ret.result.confidence <= 1000

\* C2: classify never raises to its caller; with no model loaded, or when
\* the model's invocation raises, it returns the keyword/default result for
\* the same (title, description).
C2_ClassifyNeverRaises ==
  ClassifyDone =>
    /\ ret.result # Raises
    /\ (model.kind = "None" \/ ret.raised) =>
         ret.result = KeywordReference(ret.title, ret.description,
                                       "keyword_match")

\* C2 witness: a loaded model raised during the call and the keyword
\* classifier answered instead.
C2_Witness ==
  /\ ClassifyDone
  /\ model.kind = "Pipeline"
  /\ ret.raised
  /\ ret.title = <<"pothole">>
  /\ ret.result.category = "potholes"

\* C3 as stated: the fallback classifier equals the reference, a keyword hit
\* reported with confidence 0.7 and method keyword_fallback.
C3_FallbackAsStated ==
  FallbackDone =>
    ret.result = KeywordReference(ret.title, ret.description,
                                  "keyword_fallback")

\* C3 amended: the fallback classifier equals the reference (lower-cased
\* 'title description', categories tested in the fixed order, any keyword of
\* a category as a substring, first category wins with confidence 0.7; no
\* hit gives other, 0.5, default), a keyword hit being reported with method
\* keyword_match.
C3_FallbackEqualsReference ==
  FallbackDone =>
    ret.result = KeywordReference(ret.title, ret.description, "keyword_match")

\* C3 witness: a text with keywords of two categories (leak: water, block:
\* drainage), answered with the earlier category.
C3_Witness ==
  /\ FallbackDone
  /\ ret.title = <<>>
  /\ ret.description = <<"blocked", "leak">>
  /\ ret.result.category = "water"
  /\ ret.result.method = "keyword_match"

\* C4 as stated: in every reachable state, model loaded or not,
\* classify("", "") returns category other, method default, confidence 0.5.
C4_EmptyAsStated ==
  (ClassifyDone /\ ret.title = <<>> /\ ret.description = <<>>) =>
    ret.result = DefaultResult

\* C4 amended: classify("", "") is never an error; it returns other, default,
\* 0.5 whenever no model is loaded or the model's invocation raises, and the
\* model's own answer (method ai_model) when a loaded model answers.
C4_EmptyIsDefaultWithoutModel ==
  (ClassifyDone /\ ret.title = <<>> /\ ret.description = <<>>) =>
    /\ ret.result # Raises
    /\ IF model.kind = "None" \/ ret.raised
       THEN ret.result = DefaultResult
       ELSE /\ ret.result.method = "ai_model"
            /\ ret.result.category \in classes_(model)

\* C4 witness: classify("", "") answered by the default with no model
\* loaded, after a learn whose training failed.
C4_Witness ==
  /\ ClassifyDone
  /\ ret.title = <<>>
  /\ ret.description = <<>>
  /\ model.kind = "None"
  /\ Len(texts) > Len(seed_texts)
  /\ ret.result = DefaultResult

\* C5: a description whose lower-cased text contains an urgent keyword is
\* given Critical, whatever the category and the other keywords.
C5_UrgencyOverride ==
  (PrioritizeDone /\ HasUrgent(ret.description)) => ret.priority = "Critical"

\* C5 witness: a Low-base category, an upper-case urgent keyword and an
\* escalation keyword together.
C5_Witness ==
  /\ PrioritizeDone
  /\ ret.category = "garbage"
  /\ ret.description = <<"leak", "FIRE">>
  /\ ret.priority = "Critical"

\* C6: with no urgent and no escalation keyword in the description,
\* prioritize returns the table value of the category, and Medium for a
\* category that is not in the table.
C6_CategoryBasePriority ==
  (PrioritizeDone /\ ~HasUrgent(ret.description)
                  /\ ~HasEscalation(ret.description)) =>
    ret.priority = BasePriority(ret.category)

\* C6 witness: an unknown category with a plain description.
C6_Witness ==
  /\ PrioritizeDone
  /\ ret.category = "zzz"
  /\ ret.description = <<"pothole", "park">>
  /\ ret.priority = "Medium"

\* C7: with no urgent keyword and at least one escalation keyword the result
\* is High for every category, however many escalation keywords occur; and
\* no result is less severe than the category's base priority.
C7_Escalation ==
  PrioritizeDone =>
    /\ (~HasUrgent(ret.description) /\ HasEscalation(ret.description)) =>
         ret.priority = "High"
    /\ Severity(ret.priority) >= Severity(BasePriority(ret.category))

\* C7 witness: a Low-base category escalated by a description with two
\* escalation keywords, neither of them the first of the list.
C7_Witness ==
  /\ PrioritizeDone
  /\ ret.category = "garbage"
  /\ ret.description = <<"blocked", "leak">>
  /\ ret.priority = "High"

C9_LearnSuccessPostcondition ==
  (LearnDone /\ ret.returned) =>
    /\ texts = Append(ret.texts_before, ret.text)
    /\ labels = Append(ret.labels_before, ret.category)
    /\ model = Fit(texts, labels)
    /\ diskModel = Pickle(model)

\* C10: learn returns failure whenever the retrain or the persistence of the
\* model or the metadata failed, and success only if both completed.  The
\* code does not keep it: train_model catches every exception.
C10_LearnReportsFailure ==
  LearnDone => (ret.returned <=> ret.fail = "none")

\* C11: learn has no partial state: if the retrain or persist step of
\* learn(text, category) fails, the corpus after the call equals the corpus
\* before it.  The code does not keep it: the example is appended before
\* training and never taken back.
C11_LearnFailureRevertsCorpus ==
  (LearnDone /\ ret.fail # "none") =>
    /\ texts = ret.texts_before
    /\ labels = ret.labels_before

\* C12: when writing the model file or the metadata file fails during
\* training, the in-memory model is left as it was before the training
\* started.  The code does not keep it: the except branch of train_model
\* clears self.model.
C12_PersistFailureKeepsModel ==
  (LearnDone /\ ret.fail \in {"makedirs", "dump", "meta"}) =>
    model = ret.model_before

\* a construction has returned
ConstructDone == ret.op = "construct" /\ ret.done

\* C16: load_or_train_model: a file at the model path that deserializes
\* becomes the in-memory model and neither the model file nor the metadata
\* is written; without a file, or with one that fails to deserialize, a
\* model is trained from the seed corpus and, the training completing, the
\* model and the metadata of the seed corpus are the files' content.
C16_LoadOrTrain ==
  ConstructDone =>
    IF ret.diskModel_before.kind = "pickle" /\ ~ret.loadRaises
    THEN /\ model = ret.diskModel_before.obj
         /\ diskModel = ret.diskModel_before
         /\ diskMeta = ret.diskMeta_before
    ELSE ret.fail = "none" =>
           /\ model = Fit(seed_texts, seed_labels)
           /\ diskModel = Pickle(Fit(seed_texts, seed_labels))
           /\ diskMeta = Metadata(seed_texts)

\* a construction that found the file of a model trained on a learned
\* example and loaded it
C16_Witness ==
  /\ ConstructDone
  /\ ret.diskModel_before.kind = "pickle" /\ ~ret.loadRaises
  /\ Len(ret.diskModel_before.obj.texts) > Len(seed_texts)
  /\ model = ret.diskModel_before.obj

\* a call has returned from a training run that completed
TrainedDone ==
  \/ LearnDone /\ ret.fail = "none"
  \/ ConstructDone /\ ~ret.loaded /\ ret.fail = "none"

\* C20: after a training run that completes, the metadata document exists
\* beside the persisted model, its training_samples is the number of
\* examples of the corpus the persisted model was trained on, and both
\* files are exactly what this training wrote, whatever they held before.
C20_MetadataMatchesModel ==
  TrainedDone =>
    /\ diskModel = Pickle(Fit(texts, labels))
    /\ diskMeta.kind = "json"
    /\ diskMeta.training_samples = Len(diskModel.obj.texts)
    /\ diskMeta.training_samples = Len(diskModel.obj.labels)
    /\ diskMeta = [kind |-> "json", training_samples |-> Len(texts),
                   categories |-> categories]

\* a learn whose training completed on a corpus larger than the seed
C20_Witness ==
  /\ LearnDone /\ ret.fail = "none"
  /\ Len(texts) > Len(seed_texts)
  /\ diskMeta.kind = "json"
  /\ diskMeta.training_samples = Len(texts)

\* C19: classify and prioritize leave the corpus, the in-memory model and
\* both files as they were; within an instance only learn changes the
\* corpus; and the in-memory model changes only in a training run or a
\* load, to None or to a model of the whole corpus or of the file.
C19_ReadOnlyOperations ==
  [][/\ ret'.op \in {"classify", "prioritize"} =>
          UNCHANGED <<texts, labels, model, diskModel, diskMeta>>
     /\ <<texts, labels>>' # <<texts, labels>> =>
          ret'.op \in {"learn", "construct"}
     /\ (<<texts, labels>>' # <<texts, labels>> /\ ret'.op = "construct") =>
          <<texts, labels>>' = <<seed_texts, seed_labels>>
     /\ model' # model =>
          /\ ret'.op \in {"learn", "construct"}
          /\ \/ model' = None
             \/ model' = Fit(texts', labels')
             \/ ret'.op = "construct" /\ model' = diskModel.obj]_vars

\* a classify answered by a model trained on a learned example
C19_Witness ==
  /\ ClassifyDone
  /\ model.kind = "Pipeline"
  /\ Len(texts) > Len(seed_texts)
  /\ ret.result.method = "ai_model"

\* C17: a construction whose load-and-train fails returns with the model
\* None; while the model is None every classify answers by the keyword
\* fallback or the default; within the instance the model leaves None only
\* by a learn whose training completes, on the whole corpus; and with a
\* model in memory a classify whose prediction does not raise answers by
\* the model.
C17_ModelUnavailableMode ==
  /\ [](/\ (ConstructDone /\ ~ret.loaded /\ ret.fail # "none") =>
             model = None
        /\ (ClassifyDone /\ model = None) =>
             /\ ~ret.raised
             /\ ret.result.method \in {"keyword_match", "default"}
             /\ ret.result =
                  KeywordReference(ret.title, ret.description, "keyword_match")
        /\ (ClassifyDone /\ model # None /\ ~ret.raised) =>
             ret.result.method = "ai_model")
  /\ [][(model = None /\ model' # None /\ ret'.op # "construct") =>
          /\ ret'.op = "learn"
          /\ ret'.fail = "none"
          /\ model' = Fit(texts', labels')]_vars

\* a classify answered by the keyword fallback in an instance whose
\* construction found no usable file and failed to train
C17_Witness ==
  /\ ClassifyDone
  /\ model = None
  /\ texts = seed_texts
  /\ diskModel.kind # "pickle"
  /\ ret.result.method = "keyword_match"

\* the one-token text occurs in corpus texts labelled c only
CorpusDistinguishes(text, c) ==
  /\ Len(text) = 1
  /\ \A j \in DOMAIN texts :
        Contains(Str(text), Str(texts[j])) => labels[j] = c

\* C18: a classify(text, "") that follows a learn(text, category) which
\* returned success, the text distinguishing the category and the
\* prediction not raising, answers the learned category by the model.
C18_RoundTrip ==
  [][(/\ LearnDone
      /\ ret.returned
      /\ CorpusDistinguishes(ret.text, ret.category)
      /\ ret'.op = "classify"
      /\ ret'.title = ret.text
      /\ ret'.description = <<>>
      /\ ~ret'.raised)
     => /\ ret'.result.category = ret.category
        /\ ret'.result.method = "ai_model"]_vars

\* thread t is inside a call
InCall(t) == threads[t].pc # "idle"

\* thread t is between the append of its text and the append of its label
MidAppend(t) == threads[t].pc = "append_label"

\* thread t is inside retrain_with_feedback's sequence of corpus append,
\* training and assignment of self.model
InLearnSequence(t) ==
  threads[t].pc \in {"append_label", "new_pipeline", "fit_texts",
                     "fit_labels", "dump", "metadata", "except"}

\* C13: whenever a thread is inside a call, other than the learn that is
\* between its own two appends, the corpus it can observe has as many
\* texts as labels.
C13_CorpusLockStep ==
  \A t \in Threads :
    (InCall(t) /\ ~MidAppend(t)) => Len(texts) = Len(labels)

\* C14: a classify call reads self.model up to three times; it never reads
\* a Pipeline that is not fitted, and once it has found a model it does
\* not read a cleared one.
C14_ClassifyReadsTrainedModel ==
  \A t \in Threads :
    (InCall(t) /\ threads[t].op = "classify") =>
      \A i \in DOMAIN threads[t].reads :
        /\ threads[t].reads[i] # "Unfitted"
        /\ i > 1 => threads[t].reads[i] # "None"

\* C15: no two threads are inside the learn sequence at once, and when
\* all threads have returned from a learn the corpus holds their examples
\* in lock-step and self.model is a model fitted on that whole corpus.
C15_LearnSerialized ==
  /\ \A t, u \in Threads :
       (InLearnSequence(t) /\ InLearnSequence(u)) => t = u
  /\ (\A t \in Threads : threads[t] = Idle("learn")) =>
       /\ Len(texts) = Len(labels)
       /\ Len(texts) >= Len(seed_texts) + Cardinality(Threads)
       /\ model = Fit(texts, labels)

\* C28: an in-memory model that is available is the model fitted on the
\* corpus that is in memory.
C28_ModelMatchesCorpus ==
  model # None => model = Fit(texts, labels)

\* the times recorded for an IP, none if the limiter has no entry for it
RecordOf(reqs, ip) ==
  IF ip \in DOMAIN reqs THEN {reqs[ip][i] : i \in DOMAIN reqs[ip]} ELSE {}

\* C27: of the granted calls of one IP, those whose times span less than
\* window seconds number at most max_requests; a call answered False adds
\* no time to the IP's record; and a call leaves the records of the other
\* IPs as they were.
C27_RateLimiterBound ==
  /\ \A ip \in IPs :
       \A a, b \in DOMAIN ret.granted[ip] :
         (a <= b /\ ret.granted[ip][b] - ret.granted[ip][a] < window) =>
           b - a + 1 <= max_requests
  /\ (ret.op = "is_allowed" /\ ~ret.allowed) =>
       RecordOf(requests, ret.ip) \subseteq RecordOf(ret.before, ret.ip)
  /\ ret.op = "is_allowed" =>
       \A other \in IPs \ {ret.ip} :
         /\ (other \in DOMAIN requests) = (other \in DOMAIN ret.before)
         /\ other \in DOMAIN requests => requests[other] = ret.before[other]

\* a call refused for an IP that used up its window while the other IP
\* has a record of its own, and an earlier grant of the IP has expired
C27_Witness ==
  /\ ret.op = "is_allowed"
  /\ ~ret.allowed
  /\ Len(ret.granted[ret.ip]) > max_requests
  /\ \E other \in IPs \ {ret.ip} :
       other \in DOMAIN requests /\ requests[other] # <<>>

\* C29: a run of init_database that directly follows another run leaves the
\* users and the departments as that run left them (no row added, none
\* changed) and ends as it did: two runs give what one run gives.
C29_InitDatabaseIdempotent ==
  [][(ret.op = "init_database" /\ ret'.op = "init_database")
     => /\ ret'.raised = ret.raised
        /\ users' = users
        /\ departments' = departments]_vars

\* a second run on a database in which the first run created the admin,
\* the citizen and the departments
C29_Witness ==
  /\ ret.op = "init_database"
  /\ ~ret.raised
  /\ ret.users_before = users
  /\ ret.departments_before = departments
  /\ departments = default_depts
  /\ \E i, j \in DOMAIN users :
       /\ users[i].is_admin /\ users[i].username = ret.admin_username
       /\ ~users[j].is_admin /\ users[j].email = "citizen@example.com"

\* the statuses and priorities that models.py lists for a complaint
Statuses == {"Pending", "In Progress", "Resolved", "Rejected"}
Priorities == {"Low", "Medium", "High", "Critical"}

\* the last request was made by a logged-in user who is not staff
ByCitizen == is_authenticated(ret.user) /\ ~IsStaff(ret.user)

\* the stored complaints differ, none having been filed
ComplaintEdited ==
  Len(complaints') = Len(complaints) /\ complaints' # complaints

\* C21: a feedback row is inserted only by the complaint's reporter, while
\* the complaint is Resolved and has no feedback, and no complaint ever
\* has two feedback rows.
C21_FeedbackOnlyOnResolved ==
  /\ [](\A i, j \in DOMAIN feedbacks :
          feedbacks[i].complaint_id = feedbacks[j].complaint_id => i = j)
  /\ [][Len(feedbacks') > Len(feedbacks)
        => LET f == feedbacks'[Len(feedbacks')]
               complaint == complaints[f.complaint_id]
           IN /\ f.submitted_by = complaint.user_id
              /\ complaint.status = "Resolved"
              /\ ~HasFeedback(feedbacks, f.complaint_id)]_vars

\* C22: only a request to manage_complaint by a logged-in admin or
\* government user edits a complaint; an admin route asked for by anyone
\* else redirects, shows nothing and leaves the complaints as they were.
C22_AdminGate ==
  [][/\ ComplaintEdited
        => /\ ret'.op = "manage_complaint"
           /\ is_authenticated(ret'.user)
           /\ IsStaff(ret'.user)
     /\ (/\ ret'.op \in {"manage_complaint", "admin_dashboard"}
         /\ (~is_authenticated(ret'.user) \/ ~IsStaff(ret'.user)))
        => /\ ret'.outcome = "redirect"
           /\ ret'.given = {}
           /\ complaints' = complaints]_vars

\* a citizen asked for manage_complaint after staff had edited a complaint
C22_Witness ==
  /\ ret.op = "manage_complaint"
  /\ ByCitizen
  /\ ret.outcome = "redirect"
  /\ \E i \in DOMAIN complaints : complaints[i].priority # "Medium"

\* C23: every complaint's status and priority are among the listed ones,
\* and a complaint just filed is Pending with priority Medium.
C23_StatusPriorityDomains ==
  /\ [](\A i \in DOMAIN complaints :
          /\ complaints[i].status \in Statuses
          /\ complaints[i].priority \in Priorities)
  /\ [][Len(complaints') > Len(complaints)
        => /\ complaints'[Len(complaints')].status = "Pending"
           /\ complaints'[Len(complaints')].priority = "Medium"]_vars

\* C24: a Resolved complaint has resolved_at set.
C24_ResolvedHasTime ==
  \A i \in DOMAIN complaints :
    complaints[i].status = "Resolved" => complaints[i].resolved_at # Null

\* staff resolved a complaint
C24_Witness ==
  /\ ret.op = "manage_complaint"
  /\ ret.outcome = "ok"
  /\ \E i \in ret.given :
       /\ complaints[i].status = "Resolved"
       /\ complaints[i].resolved_at # Null

\* C25: a complaint without assignee that a step leaves In Progress is
\* assigned to the user who made the request, and the assignee of an
\* assigned complaint never changes.
C25_AutoAssignment ==
  [][\A i \in DOMAIN complaints :
       /\ complaints[i].assigned_to # Null
          => complaints'[i].assigned_to = complaints[i].assigned_to
       /\ (/\ complaints[i].assigned_to = Null
           /\ complaints'[i].status = "In Progress")
          => /\ ret'.op = "manage_complaint"
             /\ complaints'[i].assigned_to = Val(ret'.user)]_vars

\* a complaint assigned to one staff user, resolved and back In Progress,
\* has just been managed by another staff user
C25_Witness ==
  /\ ret.op = "manage_complaint"
  /\ ret.outcome = "ok"
  /\ \E i \in ret.given :
       /\ complaints[i].status = "In Progress"
       /\ complaints[i].resolved_at # Null
       /\ complaints[i].assigned_to # Null
       /\ complaints[i].assigned_to # Val(ret.user)

\* C26: dashboard, view_complaint and get_complaints_api give a citizen
\* only complaints the citizen reported and give an anonymous visitor
\* none; a citizen asking to view someone else's complaint is redirected
\* and given nothing.
C26_ComplaintVisibility ==
  /\ ret.op \in {"dashboard", "view_complaint", "get_complaints_api"}
     => /\ ~is_authenticated(ret.user) => ret.given = {}
        /\ ByCitizen
           => \A i \in ret.given : complaints[i].user_id = ret.user
  /\ \A current_user \in DOMAIN users, id \in DOMAIN complaints :
       (~IsStaff(current_user) /\ complaints[id].user_id # current_user)
       => /\ view_complaint(current_user, id).outcome = "redirect"
          /\ view_complaint(current_user, id).given = {}

\* a citizen was redirected away from another citizen's complaint
C26_Witness ==
  /\ ret.op = "view_complaint"
  /\ ByCitizen
  /\ ret.outcome = "redirect"
  /\ \E i \in DOMAIN complaints : complaints[i].user_id # ret.user

====
